---- MODULE Spec2Model ----
(***************************************************************************)
(* BarCraft front end: the Home list view (src/pages/Home.tsx), the        *)
(* filter service, the pagination control, the header, and the route to    *)
(* and from the detail page, as a state machine.                           *)
(*                                                                         *)
(* Text is a sequence of one-character strings, so that trimming and the   *)
(* URL encodings are computed character by character.                      *)
(***************************************************************************)
EXTENDS Integers, Sequences, FiniteSets, TLC

(***************************************************************************)
(* Bounds of the model.                                                    *)
(***************************************************************************)
MaxLen == 2

MaxInFlight == 2

MaxIndex == 20

MaxTotal == 15

(***************************************************************************)
(* Program constants.                                                      *)
(***************************************************************************)
limit == 10

Null == "null"

Undefined == -1

Chars == {"a", " ", "&"}

RECURSIVE StringsUpTo(_)
StringsUpTo(n) ==
  IF n = 0 THEN {<<>>}
  ELSE LET shorter == StringsUpTo(n - 1)
       IN shorter \cup {Append(s, c) : s \in {t \in shorter : Len(t) = n - 1}, c \in Chars}

Inputs == StringsUpTo(MaxLen)

(***************************************************************************)
(* String.prototype.trim: strips leading and trailing white space.         *)
(***************************************************************************)
RECURSIVE TrimStart(_)
TrimStart(s) ==
  IF s = <<>> THEN <<>>
  ELSE IF Head(s) = " " THEN TrimStart(Tail(s))
  ELSE s

RECURSIVE TrimEnd(_)
TrimEnd(s) ==
  IF s = <<>> THEN <<>>
  ELSE IF s[Len(s)] = " " THEN TrimEnd(SubSeq(s, 1, Len(s) - 1))
  ELSE s

Trim(s) == TrimEnd(TrimStart(s))

(***************************************************************************)
(* URL encodings.  URLSearchParams serialises a value as                   *)
(* application/x-www-form-urlencoded (space -> "+"), encodeURIComponent    *)
(* percent-encodes (space -> "%20"); both write "&" as "%26".              *)
(***************************************************************************)
FormEncodeChar_Raw(c) ==
  IF c = " " THEN <<"+">> ELSE <<c>>

FormEncodeChar(c) ==
  IF c = " " THEN <<"+">>
  ELSE IF c = "&" THEN <<"%", "2", "6">>
  ELSE <<c>>

RECURSIVE FormEncode(_)
FormEncode(s) ==
  IF s = <<>> THEN <<>> ELSE FormEncodeChar(Head(s)) \o FormEncode(Tail(s))

EncodeURIComponentChar(c) ==
  IF c = " " THEN <<"%", "2", "0">>
  ELSE IF c = "&" THEN <<"%", "2", "6">>
  ELSE <<c>>

RECURSIVE encodeURIComponent(_)
encodeURIComponent(s) ==
  IF s = <<>> THEN <<>>
  ELSE EncodeURIComponentChar(Head(s)) \o encodeURIComponent(Tail(s))

(***************************************************************************)
(* URLSearchParams parsing: split on "&", split each pair on the first     *)
(* "=", turn "+" into a space and undo the percent escapes.                *)
(***************************************************************************)
RECURSIVE FormDecode(_)
FormDecode(s) ==
  IF s = <<>> THEN <<>>
  ELSE IF Head(s) = "+" THEN <<" ">> \o FormDecode(Tail(s))
  ELSE IF Head(s) = "%" /\ Len(s) >= 3 /\ s[2] = "2" /\ s[3] = "0"
       THEN <<" ">> \o FormDecode(SubSeq(s, 4, Len(s)))
  ELSE IF Head(s) = "%" /\ Len(s) >= 3 /\ s[2] = "2" /\ s[3] = "6"
       THEN <<"&">> \o FormDecode(SubSeq(s, 4, Len(s)))
  ELSE <<Head(s)>> \o FormDecode(Tail(s))

RECURSIVE IndexOf(_, _, _)
IndexOf(s, c, i) ==
  IF i > Len(s) THEN 0
  ELSE IF s[i] = c THEN i
  ELSE IndexOf(s, c, i + 1)

RECURSIVE SplitPairs(_)
SplitPairs(s) ==
  LET amp == IndexOf(s, "&", 1)
  IN IF amp = 0 THEN <<s>>
     ELSE <<SubSeq(s, 1, amp - 1)>> \o SplitPairs(SubSeq(s, amp + 1, Len(s)))

PairName(p) ==
  LET eq == IndexOf(p, "=", 1)
  IN FormDecode(IF eq = 0 THEN p ELSE SubSeq(p, 1, eq - 1))

PairValue(p) ==
  LET eq == IndexOf(p, "=", 1)
  IN FormDecode(IF eq = 0 THEN <<>> ELSE SubSeq(p, eq + 1, Len(p)))

(* searchParams.get(name): the first pair of that name, or null. *)
SearchParamsGet(search, name) ==
  LET pairs == SelectSeq(SplitPairs(search), LAMBDA p : p # <<>> /\ PairName(p) = name)
  IN IF pairs = <<>> THEN [present |-> FALSE, value |-> <<>>]
     ELSE [present |-> TRUE, value |-> PairValue(pairs[1])]

(* JavaScript truthiness of a string-or-null. *)
Truthy(v) == v.present /\ v.value # <<>>

(* setSearchParams(searchTerm ? { q: searchTerm } : {}) *)
SearchParamsOf(searchTerm) ==
  IF searchTerm # <<>> THEN <<"q", "=">> \o FormEncode(searchTerm) ELSE <<>>


(***************************************************************************)
(* filterService: the filter buttons and the list request.                 *)
(***************************************************************************)
FILTER_CATEGORIES ==
  << [label |-> "All Drinks",      endpoint |-> "search"],
     [label |-> "Alcoholic",       endpoint |-> "filter/alcoholic"],
     [label |-> "Non-Alcoholic",   endpoint |-> "filter/non-alcoholic"],
     [label |-> "Ordinary Drinks", endpoint |-> "filter/ordinary-drink"],
     [label |-> "Cocktails",       endpoint |-> "filter/cocktail"] >>

(* The endpoints a filter selection is drawn from: null and two buttons. *)
FilterInputs == {Null, "search", "filter/alcoholic"}

(* fetchFilteredCocktails(endpoint, index, limit): the request it sends. *)
fetchFilteredCocktails(endpoint, idx, lim) ==
  [endpoint |-> IF endpoint # Null THEN endpoint ELSE "search",
   hasQuery |-> FALSE,
   query    |-> <<>>,
   index    |-> idx,
   limit    |-> lim]

(***************************************************************************)
(* The proxy's list endpoints: items [index, index + limit) of the         *)
(* upstream list, its length, and hasMore.  An upstream item is named by   *)
(* the endpoint that lists it and its position in that list.               *)
(***************************************************************************)
Min(a, b) == IF a < b THEN a ELSE b

Max(a, b) == IF a > b THEN a ELSE b

Slice(endpoint, total, startIdx, endIdx) ==
  LET n == Max(0, Min(endIdx, total) - startIdx)
  IN [k \in 1..n |-> [endpoint |-> endpoint, pos |-> startIdx + k - 1]]

Totals == {0, 4, MaxTotal}

Shapes == {"paginated", "bare"}

(* The body of a successful response to request req. *)
ListResponse_HasMoreInclusive(req, total, shape) ==
  LET endIdx == req.index + req.limit
  IN [drinks        |-> Slice(req.endpoint, total, req.index, endIdx),
      totalCount    |-> IF shape = "paginated" THEN total ELSE Undefined,
      hasPagination |-> shape = "paginated",
      hasMore       |-> shape = "paginated" /\ endIdx <= total]

ListResponse(req, total, shape) ==
  LET endIdx == req.index + req.limit
  IN [drinks        |-> Slice(req.endpoint, total, req.index, endIdx),
      totalCount    |-> IF shape = "paginated" THEN total ELSE Undefined,
      hasPagination |-> shape = "paginated",
      hasMore       |-> shape = "paginated" /\ endIdx < total]

(* GET /api/search/letter: the page is cut at the end of the list. *)
ProxySearchLetter_HasMoreInclusive(startIndex, pageSize, total) ==
  LET start == Max(0, startIndex)
      end == Min(start + pageSize, total)
  IN [drinks        |-> Slice("search/letter", total, start, end),
      totalCount    |-> total,
      hasPagination |-> TRUE,
      hasMore       |-> end <= total]

ProxySearchLetter(startIndex, pageSize, total) ==
  LET start == Max(0, startIndex)
      end == Min(start + pageSize, total)
  IN [drinks        |-> Slice("search/letter", total, start, end),
      totalCount    |-> total,
      hasPagination |-> TRUE,
      hasMore       |-> end < total]

(* The paginated list endpoints of the proxy. *)
ProxyListEndpoints == {"search", "filter/alcoholic", "search/letter"}

(* The body a list endpoint answers with for index, limit and an upstream
   list of total items. *)
ProxyList(endpoint, idx, lim, total) ==
  IF endpoint = "search/letter"
  THEN ProxySearchLetter(idx, lim, total)
  ELSE ListResponse([endpoint |-> endpoint, index |-> idx, limit |-> lim], total, "paginated")

(***************************************************************************)
(* State.                                                                  *)
(***************************************************************************)
VARIABLES
  route,          \* which page the router shows: "home" or "details"
  searchParams,   \* the query string of the URL
  query, displayValue, cocktails, index, loading, isSearching,
  isDefaultView, totalCount, hasMore, activeFilter, filterLabel,
  inflight,       \* the list fetches awaiting their response, in issue order
  id,             \* the :id route parameter of the detail page
  cocktail, detailLoading, error, detailDisplayValue,
  detailInflight, \* the detail fetches awaiting their response, in issue order
  call            \* a service function called on its own: arguments and outcome

homeVars == <<query, displayValue, cocktails, index, loading, isSearching,
              isDefaultView, totalCount, hasMore, activeFilter, filterLabel,
              inflight>>

detailVars == <<id, cocktail, detailLoading, error, detailDisplayValue,
                detailInflight>>

vars == <<route, searchParams, homeVars, detailVars, call>>

(***************************************************************************)
(* The fetch effect of Home (deps [activeFilter, index, limit]).           *)
(* getCocktails runs up to its await: the request leaves with the values   *)
(* of this render; every older pending fetch stops being the latest.       *)
(***************************************************************************)
Superseded(fs) == [k \in 1..Len(fs) |-> [fs[k] EXCEPT !.latest = FALSE]]

IssueFetch(fs, filter, idx) ==
  Append(Superseded(fs),
         [req |-> fetchFilteredCocktails(filter, idx, limit), latest |-> TRUE])

(* Pagination derived on every render. *)
PageNumber_ZeroBased(idx, lim) == idx \div lim

PageNumber(idx, lim) == (idx \div lim) + 1

currentPage == PageNumber(index, limit)

showPagination_UnknownTotal ==
  Len(cocktails) > 0 /\ (totalCount = Undefined \/ totalCount > limit)

showPagination == Len(cocktails) > 0 /\ totalCount # Undefined /\ totalCount > limit

isFirstPage == index = 0

(* The list (and the pagination under it) replaces the spinner. *)
ListShown == ~(isSearching \/ loading)

(* The "No drinks found" block is rendered in place of the cards. *)
NoDrinksShown == ListShown /\ Len(cocktails) = 0

(* The Pagination component is rendered under the list. *)
PaginationShown == ListShown /\ showPagination

(* Math.ceil(a / b) for a >= 0 and b > 0. *)
Ceil(a, b) == (a + b - 1) \div b

totalPages == Ceil(totalCount, limit)

(* The isLastPage prop handed to Pagination. *)
isLastPage == ~hasMore

(* The heading over the list. *)
Heading == IF isDefaultView THEN "All Drinks" ELSE filterLabel

(***************************************************************************)
(* Home mounts on the URL whose query string is search: the useState       *)
(* initialisers, then the mount effect (which calls handleSearch when q is *)
(* truthy), then the fetch effect.  The state once these have run:         *)
(***************************************************************************)
HomeMounted(search) ==
  LET queryParam == SearchParamsGet(search, <<"q">>)
      searchTerm == Trim(queryParam.value)
  IN [searchParams  |-> IF Truthy(queryParam) THEN SearchParamsOf(searchTerm) ELSE search,
      query         |-> IF Truthy(queryParam) THEN searchTerm ELSE <<>>,
      displayValue  |-> IF Truthy(queryParam) THEN searchTerm ELSE <<>>,
      isSearching   |-> Truthy(queryParam),
      isDefaultView |-> ~Truthy(queryParam),
      inflight      |-> IssueFetch(<<>>, Null, 0)]

(* A page that is not mounted holds no state. *)
NoId == 0

NoCocktail == 0

NaNId == -1

NoError == [message |-> "null", id |-> NoId, status |-> 0]

(* No service function is being called on its own. *)
NoCall == [fn |-> "none", args |-> <<>>, done |-> FALSE, result |-> <<>>]

(***************************************************************************)
(* The service layer.  What fetch(url) gives the client: the call fails,   *)
(* or a response with a status and a JSON body arrives.                    *)
(***************************************************************************)
NetworkFailure == [failed |-> TRUE, status |-> 0, body |-> <<>>]

HttpResponse(status, body) == [failed |-> FALSE, status |-> status, body |-> body]

(* response.ok *)
Ok(response) == response.status \in 200..299

(* An Error: its message, with the id or the status the message quotes. *)
Error(message, quotedId, quotedStatus) ==
  [message |-> message, id |-> quotedId, status |-> quotedStatus]

Rejected(err) == [rejected |-> TRUE, error |-> err, value |-> <<>>]

Resolved(value) == [rejected |-> FALSE, error |-> NoError, value |-> value]

(* apiService.fetchFromApi, from the outcome of its one fetch(url) on. *)
fetchFromApi_IgnoresStatus(response) ==
  IF response.failed
  THEN Rejected(Error("Failed to fetch", NoId, 0))
  ELSE Resolved(response.body)

fetchFromApi(response) ==
  IF response.failed
  THEN Rejected(Error("Failed to fetch", NoId, 0))
  ELSE IF ~Ok(response)
  THEN Rejected(Error("API error", NoId, response.status))
  ELSE Resolved(response.body)

(* The drink of a detail body; an error body has none. *)
DrinkOf(body) == IF "drink" \in DOMAIN body THEN body.drink ELSE NoCocktail

(* cocktailService.fetchCocktailById, from the response on. *)
fetchCocktailById_ReturnsNull(reqId, response) ==
  LET r == fetchFromApi(response)
  IN IF r.rejected THEN r ELSE Resolved(DrinkOf(r.value))

fetchCocktailById(reqId, response) ==
  LET r == fetchFromApi(response)
  IN IF r.rejected THEN r
     ELSE IF DrinkOf(r.value) = NoCocktail
     THEN Rejected(Error("Cocktail with ID not found", reqId, 0))
     ELSE Resolved(DrinkOf(r.value))

(* String.prototype.toLowerCase on the characters used here. *)
ToLowerCaseChar(c) == IF c = "A" THEN "a" ELSE IF c = "Z" THEN "z" ELSE c

toLowerCase(text) == [i \in 1..Len(text) |-> ToLowerCaseChar(text[i])]

(* cocktailService.fetchCocktailsByLetter: the parameters handed to
   buildUrl, the requests handed to fetchFromApi, and the outcome. *)
fetchCocktailsByLetter_Unvalidated(letter, idx, lim, response) ==
  LET params == [firstLetter |-> toLowerCase(letter), index |-> idx, limit |-> lim]
      r == fetchFromApi(response)
  IN [built    |-> <<params>>,
      requests |-> <<[path |-> "search/letter", params |-> params]>>,
      outcome  |-> IF r.rejected THEN r ELSE Resolved(r.value.drinks)]

fetchCocktailsByLetter(letter, idx, lim, response) ==
  IF Len(letter) # 1
  THEN [built    |-> <<>>,
        requests |-> <<>>,
        outcome  |-> Rejected(Error("Letter parameter must be a single character", NoId, 0))]
  ELSE LET params == [firstLetter |-> toLowerCase(letter), index |-> idx, limit |-> lim]
           r == fetchFromApi(response)
       IN [built    |-> <<params>>,
           requests |-> <<[path |-> "search/letter", params |-> params]>>,
           outcome  |-> IF r.rejected THEN r ELSE Resolved(r.value.drinks)]

(***************************************************************************)
(* apiService.buildUrl.  The params object is the sequence of its entries  *)
(* in insertion order; an entry that is not present holds undefined.  The  *)
(* keys are plain letters, which encodeURIComponent leaves alone.  The     *)
(* returned URL is the base, whether a '?' follows it, and the emitted     *)
(* name=value pairs in order.                                              *)
(***************************************************************************)
Digit(d) ==
  CASE d = 0 -> "0" [] d = 1 -> "1" [] d = 2 -> "2" [] d = 3 -> "3" [] d = 4 -> "4"
    [] d = 5 -> "5" [] d = 6 -> "6" [] d = 7 -> "7" [] d = 8 -> "8" [] d = 9 -> "9"

RECURSIVE NumberToString(_)
(* Number.prototype.toString for a natural number. *)
NumberToString(n) ==
  IF n < 10 THEN <<Digit(n)>> ELSE NumberToString(n \div 10) \o <<Digit(n % 10)>>

Absent(key) == [key |-> key, present |-> FALSE, value |-> <<>>]

TextEntry(key, text) == [key |-> key, present |-> TRUE, value |-> text]

NumberEntry(key, n) == [key |-> key, present |-> TRUE, value |-> NumberToString(n)]

buildUrl(baseUrl, params) ==
  LET kept == SelectSeq(params, LAMBDA entry : entry.present)
      queryParams == [i \in 1..Len(kept) |->
                        [name |-> kept[i].key, value |-> encodeURIComponent(kept[i].value)]]
  IN [base |-> baseUrl, mark |-> queryParams # <<>>, pairs |-> queryParams]

(***************************************************************************)
(* The proxy's GET /api/cocktail/:id, by what the upstream lookup gives:   *)
(* the record ("found"), no record ("missing"), or an exception ("down").  *)
(***************************************************************************)
Upstreams == {"found", "missing", "down"}

ProxyCocktailById(reqId, upstream) ==
  IF reqId = NoId \/ reqId = NaNId
  THEN HttpResponse(400, [error |-> "Invalid cocktail ID"])
  ELSE IF upstream = "down"
  THEN HttpResponse(500, [error |-> "Failed to fetch cocktail details"])
  ELSE IF upstream = "missing"
  THEN HttpResponse(404, [error |-> "Cocktail not found"])
  ELSE HttpResponse(200, [drink |-> reqId])

(* The lookups GET /api/cocktail/:id sends upstream for reqId. *)
ProxyLookups(reqId) == IF reqId = NoId \/ reqId = NaNId THEN <<>> ELSE <<reqId>>

HomeUnmounted ==
  /\ query' = <<>> /\ displayValue' = <<>> /\ cocktails' = <<>>
  /\ index' = 0 /\ loading' = FALSE /\ isSearching' = FALSE
  /\ isDefaultView' = TRUE /\ totalCount' = 0 /\ hasMore' = TRUE
  /\ activeFilter' = Null /\ filterLabel' = "All Drinks"
  /\ inflight' = <<>>

DetailsUnmounted ==
  /\ id' = NoId /\ cocktail' = NoCocktail /\ detailLoading' = FALSE
  /\ error' = NoError /\ detailDisplayValue' = <<>> /\ detailInflight' = <<>>

(***************************************************************************)
(* Home.handleSearch(value), followed by the render it causes: the fetch   *)
(* effect runs only if one of its deps changed, here index.                *)
(***************************************************************************)
handleSearch_KeepsIndex(value) ==
  LET searchTerm == Trim(value)
  IN /\ route = "home"
     /\ isSearching' = TRUE
     /\ cocktails' = <<>>
     /\ displayValue' = searchTerm
     /\ query' = searchTerm
     /\ isDefaultView' = (searchTerm = <<>>)
     /\ searchParams' = SearchParamsOf(searchTerm)
     /\ UNCHANGED <<index, loading, inflight>>
     /\ UNCHANGED <<route, totalCount, hasMore, activeFilter, filterLabel, detailVars, call>>

handleSearch(value) ==
  LET searchTerm == Trim(value)
  IN /\ route = "home"
     /\ isSearching' = TRUE
     /\ cocktails' = <<>>
     /\ displayValue' = searchTerm
     /\ query' = searchTerm
     /\ isDefaultView' = (searchTerm = <<>>)
     /\ index' = 0
     /\ searchParams' = SearchParamsOf(searchTerm)
     /\ IF index # 0
        THEN /\ Len(inflight) < MaxInFlight
             /\ loading' = TRUE
             /\ inflight' = IssueFetch(inflight, activeFilter, 0)
                ELSE UNCHANGED <<loading, inflight>>
     /\ UNCHANGED <<route, totalCount, hasMore, activeFilter, filterLabel, detailVars, call>>

(***************************************************************************)
(* Home.handleFilterChange(endpoint) and the render it causes.             *)
(***************************************************************************)
LabelOf(endpoint) ==
  LET found == SelectSeq(FILTER_CATEGORIES, LAMBDA f : f.endpoint = endpoint)
  IN IF found = <<>> THEN "All Drinks" ELSE found[1].label

handleFilterChange(endpoint) ==
  /\ route = "home"
  /\ activeFilter' = endpoint
  /\ index' = 0
  /\ isDefaultView' = FALSE
  /\ filterLabel' = LabelOf(endpoint)
  /\ displayValue' = <<>>
  /\ query' = <<>>
  /\ searchParams' = <<>>
  /\ IF activeFilter # endpoint \/ index # 0
     THEN /\ Len(inflight) < MaxInFlight
          /\ loading' = TRUE
          /\ cocktails' = <<>>
          /\ inflight' = IssueFetch(inflight, endpoint, 0)
          ELSE UNCHANGED <<loading, cocktails, inflight>>
  /\ UNCHANGED <<route, isSearching, totalCount, hasMore, detailVars, call>>

(***************************************************************************)
(* The Pagination buttons: rendered under the list when showPagination,    *)
(* Previous disabled at index 0, Next disabled when hasMore is false.      *)
(***************************************************************************)
SetIndex_NoSpinner(newIndex) ==
  /\ index' = newIndex
  /\ IF newIndex # index
     THEN /\ Len(inflight) < MaxInFlight
          /\ cocktails' = <<>>
          /\ inflight' = IssueFetch(inflight, activeFilter, newIndex)
          /\ UNCHANGED loading
          ELSE UNCHANGED <<loading, cocktails, inflight>>
  /\ UNCHANGED <<route, searchParams, query, displayValue, isSearching,
                 isDefaultView, totalCount, hasMore, activeFilter, filterLabel,
                 detailVars, call>>

SetIndex(newIndex) ==
  /\ index' = newIndex
  /\ IF newIndex # index
     THEN /\ Len(inflight) < MaxInFlight
          /\ loading' = TRUE
          /\ cocktails' = <<>>
          /\ inflight' = IssueFetch(inflight, activeFilter, newIndex)
          ELSE UNCHANGED <<loading, cocktails, inflight>>
  /\ UNCHANGED <<route, searchParams, query, displayValue, isSearching,
                 isDefaultView, totalCount, hasMore, activeFilter, filterLabel,
                 detailVars, call>>

NextEnabled == ListShown /\ showPagination /\ hasMore

PreviousEnabled == ListShown /\ showPagination /\ index # 0

onNext_IgnoresHasMore ==
  /\ route = "home"
  /\ ListShown /\ showPagination
  /\ index + limit <= MaxIndex
  /\ SetIndex(index + limit)

onNext_ByOne ==
  /\ route = "home"
  /\ NextEnabled
  /\ index + limit <= MaxIndex
  /\ SetIndex(index + 1)

onNext ==
  /\ route = "home"
  /\ NextEnabled
  /\ index + limit <= MaxIndex
  /\ SetIndex(index + limit)

onPrevious_Unclamped ==
  /\ route = "home"
  /\ ListShown /\ showPagination
  /\ SetIndex(index - limit)

onPrevious ==
  /\ route = "home"
  /\ PreviousEnabled
  /\ SetIndex(Max(0, index - limit))

(***************************************************************************)
(* The k-th pending list fetch settles: the rest of getCocktails.          *)
(***************************************************************************)
WithoutFetch(fs, k) == SubSeq(fs, 1, k - 1) \o SubSeq(fs, k + 1, Len(fs))

FetchResolved_InfersHasMore(k, total, shape) ==
  LET f == inflight[k]
      settled == fetchFromApi(HttpResponse(200, ListResponse(f.req, total, shape)))
      results == settled.value
  IN /\ route = "home"
     /\ k \in 1..Len(inflight)
     /\ ~settled.rejected
     /\ cocktails' = results.drinks
     /\ totalCount' = results.totalCount
     /\ hasMore' = IF results.hasPagination THEN results.hasMore
                   ELSE Len(results.drinks) >= limit
     /\ loading' = FALSE
     /\ isSearching' = FALSE
     /\ inflight' = WithoutFetch(inflight, k)
     /\ UNCHANGED <<route, searchParams, query, displayValue, index,
                    isDefaultView, activeFilter, filterLabel, detailVars, call>>

FetchResolved(k, total, shape) ==
  LET f == inflight[k]
      settled == fetchFromApi(HttpResponse(200, ListResponse(f.req, total, shape)))
      results == settled.value
  IN /\ route = "home"
     /\ k \in 1..Len(inflight)
     /\ ~settled.rejected
     /\ cocktails' = results.drinks
     /\ totalCount' = results.totalCount
     /\ hasMore' = (results.hasPagination /\ results.hasMore)
     /\ loading' = FALSE
     /\ isSearching' = FALSE
     /\ inflight' = WithoutFetch(inflight, k)
     /\ UNCHANGED <<route, searchParams, query, displayValue, index,
                    isDefaultView, activeFilter, filterLabel, detailVars, call>>

ListFailures == {"down", "offline"}

(* What a failing fetch of a list endpoint gives: the 500 of the route's
   catch, or no answer when the proxy cannot be reached. *)
ListFailure(failure) ==
  IF failure = "offline" THEN NetworkFailure
  ELSE HttpResponse(500, [error |-> "Failed to search cocktails"])

FetchRejected_KeepsList(k, failure) ==
  /\ route = "home"
  /\ k \in 1..Len(inflight)
  /\ fetchFromApi(ListFailure(failure)).rejected
  /\ loading' = FALSE
  /\ isSearching' = FALSE
  /\ inflight' = WithoutFetch(inflight, k)
  /\ UNCHANGED <<route, searchParams, query, displayValue, index, cocktails,
                 isDefaultView, totalCount, hasMore, activeFilter, filterLabel,
                 detailVars, call>>

FetchRejected(k, failure) ==
  /\ route = "home"
  /\ k \in 1..Len(inflight)
  /\ fetchFromApi(ListFailure(failure)).rejected
  /\ cocktails' = <<>>
  /\ loading' = FALSE
  /\ isSearching' = FALSE
  /\ inflight' = WithoutFetch(inflight, k)
  /\ UNCHANGED <<route, searchParams, query, displayValue, index,
                 isDefaultView, totalCount, hasMore, activeFilter, filterLabel,
                 detailVars, call>>


(***************************************************************************)
(* The detail page (src/pages/CocktailDetails.tsx).                        *)
(***************************************************************************)
InvalidId(i) == i = NoId \/ i = NaNId

(* getCocktailDetails up to its await, for the id of this render. *)
DetailEffect_Unvalidated(newId, fs) ==
  [detailLoading |-> TRUE,
   error |-> NoError,
   detailInflight |-> Append(Superseded(fs), [id |-> newId, latest |-> TRUE])]

DetailEffect(newId, fs) ==
  IF InvalidId(newId)
  THEN [detailLoading |-> FALSE,
        error |-> Error("Invalid cocktail ID", NoId, 0),
        detailInflight |-> Superseded(fs)]
  ELSE [detailLoading |-> TRUE,
        error |-> NoError,
        detailInflight |-> Append(Superseded(fs), [id |-> newId, latest |-> TRUE])]

DetailsMounted(newId, search) ==
  LET queryParam == SearchParamsGet(search, <<"q">>)
      eff == DetailEffect(newId, <<>>)
  IN [detailDisplayValue |-> IF Truthy(queryParam) THEN queryParam.value ELSE <<>>,
      detailLoading |-> eff.detailLoading,
      error |-> eff.error,
      detailInflight |-> eff.detailInflight]


(***************************************************************************)
(* Routing.  A page that is left is unmounted: its state is dropped and    *)
(* the responses of its pending fetches no longer change anything.         *)
(***************************************************************************)
MountHome(search) ==
  LET m == HomeMounted(search)
  IN /\ route' = "home"
     /\ searchParams' = m.searchParams
     /\ query' = m.query
     /\ displayValue' = m.displayValue
     /\ isSearching' = m.isSearching
     /\ isDefaultView' = m.isDefaultView
     /\ inflight' = m.inflight
     /\ cocktails' = <<>> /\ index' = 0 /\ loading' = TRUE
     /\ totalCount' = 0 /\ hasMore' = TRUE
     /\ activeFilter' = Null /\ filterLabel' = "All Drinks"
     /\ DetailsUnmounted
     /\ UNCHANGED call

MountDetails(newId, search) ==
  LET m == DetailsMounted(newId, search)
  IN /\ route' = "details"
     /\ searchParams' = search
     /\ id' = newId
     /\ cocktail' = NoCocktail
     /\ detailDisplayValue' = m.detailDisplayValue
     /\ detailLoading' = m.detailLoading
     /\ error' = m.error
     /\ detailInflight' = m.detailInflight
     /\ HomeUnmounted
     /\ UNCHANGED call

(* The id of a listed drink. *)
CocktailId(item) == 11000 + item.pos

(* CocktailCard: the Link of the k-th card of the list. *)
CardLink(k) ==
  LET currentQuery == SearchParamsGet(searchParams, <<"q">>)
  IN [id |-> CocktailId(cocktails[k]),
      search |-> IF Truthy(currentQuery)
                 THEN <<"q", "=">> \o encodeURIComponent(currentQuery.value)
                 ELSE <<>>]

OpenCard ==
  /\ route = "home"
  /\ ListShown
  /\ Len(cocktails) > 0
  /\ MountDetails(CardLink(1).id, CardLink(1).search)

(* The Header of the detail page is rendered once a cocktail is shown. *)
DetailsShown == ~detailLoading /\ error = NoError /\ cocktail # NoCocktail

ErrorShown == ~detailLoading /\ error # NoError

(* What CocktailDetails renders: the spinner, the error view, null, or the
   details; the error view and the details carry a "Back to search" link. *)
DetailView ==
  IF detailLoading THEN "loading"
  ELSE IF error # NoError THEN "error"
  ELSE IF cocktail = NoCocktail THEN "nothing"
  ELSE "details"

BackLinkShown == DetailView \in {"error", "details"}

(* CocktailDetails.handleSearch(value): navigate to /?q=<value>. *)
detailsHandleSearch(value) ==
  /\ route = "details"
  /\ DetailsShown
  /\ MountHome(<<"q", "=">> \o encodeURIComponent(value))

(* The "Back to search" links, both to "/". *)
BackToSearch ==
  /\ route = "details"
  /\ DetailsShown \/ ErrorShown
  /\ MountHome(<<>>)

(* The :id of the route changes while the detail page stays mounted. *)
DetailIds == {11000, 99999, NaNId}

ChangeId(newId) ==
  LET eff == DetailEffect(newId, detailInflight)
  IN /\ route = "details"
     /\ newId # id
     /\ Len(detailInflight) < MaxInFlight
     /\ id' = newId
     /\ detailLoading' = eff.detailLoading
     /\ error' = eff.error
     /\ detailInflight' = eff.detailInflight
     /\ UNCHANGED <<route, searchParams, cocktail, detailDisplayValue, homeVars, call>>

(***************************************************************************)
(* The k-th pending detail fetch settles: fetchCocktailById resolves with  *)
(* the drink or throws, and getCocktailDetails finishes.                   *)
(***************************************************************************)
DetailOutcomes == Upstreams \cup {"offline"}

(* What the fetch of /api/cocktail/<reqId> gives: the proxy's answer, or no
   answer when the proxy cannot be reached. *)
DetailResponse(reqId, outcome) ==
  IF outcome = "offline" THEN NetworkFailure ELSE ProxyCocktailById(reqId, outcome)

DetailSettled_SwallowsError(k, outcome) ==
  LET f == detailInflight[k]
      data == fetchCocktailById(f.id, DetailResponse(f.id, outcome))
  IN /\ route = "details"
     /\ k \in 1..Len(detailInflight)
     /\ IF ~data.rejected
        THEN /\ cocktail' = data.value
             /\ UNCHANGED error
        ELSE UNCHANGED <<error, cocktail>>
     /\ detailLoading' = FALSE
     /\ detailInflight' = WithoutFetch(detailInflight, k)
     /\ UNCHANGED <<route, searchParams, id, detailDisplayValue, homeVars, call>>

DetailSettled(k, outcome) ==
  LET f == detailInflight[k]
      data == fetchCocktailById(f.id, DetailResponse(f.id, outcome))
  IN /\ route = "details"
     /\ k \in 1..Len(detailInflight)
     /\ IF ~data.rejected
        THEN /\ cocktail' = data.value
             /\ UNCHANGED error
        ELSE /\ error' = data.error
             /\ UNCHANGED cocktail
     /\ detailLoading' = FALSE
     /\ detailInflight' = WithoutFetch(detailInflight, k)
     /\ UNCHANGED <<route, searchParams, id, detailDisplayValue, homeVars, call>>

(***************************************************************************)
(* The application is opened on either route.                              *)
(***************************************************************************)
InitSearches == {<<>>} \cup {<<"q", "=">> \o FormEncode(v) : v \in Inputs}

InitHome(search) ==
  LET m == HomeMounted(search)
  IN /\ route = "home"
     /\ searchParams = m.searchParams
     /\ query = m.query
     /\ displayValue = m.displayValue
     /\ isSearching = m.isSearching
     /\ isDefaultView = m.isDefaultView
     /\ inflight = m.inflight
     /\ cocktails = <<>> /\ index = 0 /\ loading = TRUE
     /\ totalCount = 0 /\ hasMore = TRUE
     /\ activeFilter = Null /\ filterLabel = "All Drinks"
     /\ id = NoId /\ cocktail = NoCocktail /\ detailLoading = FALSE
     /\ error = NoError /\ detailDisplayValue = <<>> /\ detailInflight = <<>>
     /\ call = NoCall

InitDetails(newId, search) ==
  LET m == DetailsMounted(newId, search)
  IN /\ route = "details"
     /\ searchParams = search
     /\ id = newId
     /\ cocktail = NoCocktail
     /\ detailDisplayValue = m.detailDisplayValue
     /\ detailLoading = m.detailLoading
     /\ error = m.error
     /\ detailInflight = m.detailInflight
     /\ query = <<>> /\ displayValue = <<>> /\ cocktails = <<>>
     /\ index = 0 /\ loading = FALSE /\ isSearching = FALSE
     /\ isDefaultView = TRUE /\ totalCount = 0 /\ hasMore = TRUE
     /\ activeFilter = Null /\ filterLabel = "All Drinks"
     /\ inflight = <<>>
     /\ call = NoCall

Init ==
  \/ \E search \in InitSearches : InitHome(search)
  \/ \E newId \in DetailIds : InitDetails(newId, <<>>)

Next ==
  \/ \E value \in Inputs : handleSearch(value)
  \/ \E endpoint \in FilterInputs : handleFilterChange(endpoint)
  \/ onNext
  \/ onPrevious
  \/ \E k \in 1..Len(inflight), total \in Totals, shape \in Shapes :
       FetchResolved(k, total, shape)
  \/ \E k \in 1..Len(inflight), failure \in ListFailures : FetchRejected(k, failure)
  \/ OpenCard
  \/ \E value \in Inputs : detailsHandleSearch(value)
  \/ BackToSearch
  \/ \E newId \in DetailIds : ChangeId(newId)
  \/ \E k \in 1..Len(detailInflight), outcome \in DetailOutcomes :
       DetailSettled(k, outcome)

Spec == Init /\ [][Next]_vars

(***************************************************************************)
(* The service functions called on their own, as the service tests call    *)
(* them: no page is mounted, the arguments and the response of the proxy   *)
(* are drawn from the sets below, and the call runs to its outcome.        *)
(***************************************************************************)
LetterChars == {"a", "A", "Z", "&"}

LetterInputs == UNION {[1..n -> LetterChars] : n \in 0..MaxLen}

LetterIndexes == {0, limit, MaxIndex}

LetterResponses ==
  {NetworkFailure,
   HttpResponse(500, [error |-> "Failed to fetch drinks"]),
   HttpResponse(200, [drinks |-> <<>>]),
   HttpResponse(200, [drinks |-> <<"A1">>])}

ServiceIds == {11000, 99999}

DetailResponses ==
  {NetworkFailure, HttpResponse(200, [drink |-> NoCocktail])}
    \cup {ProxyCocktailById(reqId, upstream) : reqId \in ServiceIds, upstream \in Upstreams}

(* The SearchParams objects handed to buildUrl: each of query, firstLetter,
   index and limit is left out or given, the empty text and 0 included. *)
OptionalText(key, texts) == {Absent(key)} \cup {TextEntry(key, text) : text \in texts}

OptionalNumber(key, numbers) == {Absent(key)} \cup {NumberEntry(key, n) : n \in numbers}

BuildUrlParams ==
  {<<q, f, i, l>> : q \in OptionalText("query", Inputs),
                    f \in OptionalText("firstLetter", {<<>>, <<"a">>, <<"&">>}),
                    i \in OptionalNumber("index", {0, limit}),
                    l \in OptionalNumber("limit", {0, limit})}

(* The list endpoints of the proxy requested on their own, and paged through
   from index 0 while the response says hasMore. *)
PageSizes == {1, 3, limit}

ListIndexes == 0..MaxIndex

ListTotals == 0..MaxTotal

Paging(endpoint, lim, total) ==
  [fn |-> "paging", args |-> [endpoint |-> endpoint, limit |-> lim, total |-> total],
   done |-> FALSE, result |-> [index |-> 0, requests |-> 0, pages |-> <<>>]]

NothingMounted ==
  /\ route = "none" /\ searchParams = <<>>
  /\ query = <<>> /\ displayValue = <<>> /\ cocktails = <<>>
  /\ index = 0 /\ loading = FALSE /\ isSearching = FALSE
  /\ isDefaultView = TRUE /\ totalCount = 0 /\ hasMore = TRUE
  /\ activeFilter = Null /\ filterLabel = "All Drinks"
  /\ inflight = <<>>
  /\ id = NoId /\ cocktail = NoCocktail /\ detailLoading = FALSE
  /\ error = NoError /\ detailDisplayValue = <<>> /\ detailInflight = <<>>

Calling(fn, args) == [fn |-> fn, args |-> args, done |-> FALSE, result |-> <<>>]

ServiceInit ==
  /\ NothingMounted
  /\ \/ \E letter \in LetterInputs, idx \in LetterIndexes, response \in LetterResponses :
          call = Calling("fetchCocktailsByLetter",
                         [letter |-> letter, index |-> idx, limit |-> limit,
                          response |-> response])
     \/ \E reqId \in ServiceIds, response \in DetailResponses :
          call = Calling("fetchCocktailById", [id |-> reqId, response |-> response])
     \/ \E params \in BuildUrlParams :
          call = Calling("buildUrl", [baseUrl |-> "/api/search", params |-> params])
     \/ \E endpoint \in ProxyListEndpoints, idx \in ListIndexes, lim \in PageSizes,
           total \in ListTotals :
          call = Calling("proxyList", [endpoint |-> endpoint, index |-> idx,
                                       limit |-> lim, total |-> total])
     \/ \E endpoint \in ProxyListEndpoints, lim \in PageSizes, total \in ListTotals :
          call = Paging(endpoint, lim, total)

CallFetchCocktailsByLetter ==
  /\ call.fn = "fetchCocktailsByLetter" /\ ~call.done
  /\ call' = [call EXCEPT
                !.done = TRUE,
                !.result = fetchCocktailsByLetter(call.args.letter, call.args.index,
                                                  call.args.limit, call.args.response)]
  /\ UNCHANGED <<route, searchParams, homeVars, detailVars>>

CallFetchCocktailById ==
  /\ call.fn = "fetchCocktailById" /\ ~call.done
  /\ call' = [call EXCEPT
                !.done = TRUE,
                !.result = fetchCocktailById(call.args.id, call.args.response)]
  /\ UNCHANGED <<route, searchParams, homeVars, detailVars>>

CallBuildUrl ==
  /\ call.fn = "buildUrl" /\ ~call.done
  /\ call' = [call EXCEPT
                !.done = TRUE,
                !.result = buildUrl(call.args.baseUrl, call.args.params)]
  /\ UNCHANGED <<route, searchParams, homeVars, detailVars>>

CallProxyList ==
  /\ call.fn = "proxyList" /\ ~call.done
  /\ call' = [call EXCEPT
                !.done = TRUE,
                !.result = ProxyList(call.args.endpoint, call.args.index,
                                     call.args.limit, call.args.total)]
  /\ UNCHANGED <<route, searchParams, homeVars, detailVars>>

(* One request of the paging loop: the page at the current index; the next
   index is index + limit while the response says hasMore. *)
RequestPage ==
  /\ call.fn = "paging" /\ ~call.done
  /\ LET page == ProxyList(call.args.endpoint, call.result.index,
                           call.args.limit, call.args.total)
     IN call' = [call EXCEPT
                   !.done = ~page.hasMore,
                   !.result = [index    |-> IF page.hasMore
                                            THEN call.result.index + call.args.limit
                                            ELSE call.result.index,
                               requests |-> call.result.requests + 1,
                               pages    |-> Append(call.result.pages, page.drinks)]]
  /\ UNCHANGED <<route, searchParams, homeVars, detailVars>>

ServiceNext ==
  \/ CallFetchCocktailsByLetter
  \/ CallFetchCocktailById
  \/ CallBuildUrl
  \/ CallProxyList
  \/ RequestPage

ServiceSpec == ServiceInit /\ [][ServiceNext]_vars

(* A call that has started runs on: the paging loop issues its next request
   as long as the last response said hasMore. *)
ServiceFairSpec == ServiceSpec /\ WF_vars(ServiceNext)


(***************************************************************************)
(* Properties.                                                             *)
(***************************************************************************)
LatestPending == \E k \in 1..Len(inflight) : inflight[k].latest

(* A step in which the k-th pending list fetch settles. *)
Settles(k) ==
  /\ route = "home" /\ route' = "home"
  /\ k \in 1..Len(inflight)
  /\ Len(inflight') = Len(inflight) - 1
  /\ inflight' = WithoutFetch(inflight, k)

(* C1: once the most recently issued list fetch has settled, a displayed
   page is the result of that fetch, which asked for the current filter and
   index, and never the result of an older, overtaken fetch. *)
C1_LatestFetchWins ==
  (route = "home" /\ ~LatestPending /\ cocktails # <<>>)
    => /\ cocktails[1].endpoint = fetchFilteredCocktails(activeFilter, index, limit).endpoint
       /\ cocktails[1].pos = index

(* C2: the settling of a list fetch that is no longer the most recently
   issued one changes none of cocktails, totalCount, hasMore, loading and
   isSearching. *)
C2_StaleSettleIsDiscarded ==
  [][\A k \in 1..Len(inflight) :
       (Settles(k) /\ ~inflight[k].latest)
         => UNCHANGED <<cocktails, totalCount, hasMore, loading, isSearching>>]_vars

(* C3: the Home view shows the loading state only while a list fetch is in
   flight, so that it leaves the loading state once the fetches settle. *)
C3_LoadingOnlyWhileFetching ==
  (route = "home" /\ (isSearching \/ loading)) => inflight # <<>>

(* The request that the discriminator priority letter > category filter >
   free text > default listing selects (Home holds no letter). *)
SelectedRequest(text, filter, idx) ==
  IF filter # Null
  THEN [endpoint |-> filter, hasQuery |-> FALSE, query |-> <<>>,
        index |-> idx, limit |-> limit]
  ELSE IF text # <<>>
  THEN [endpoint |-> "search", hasQuery |-> TRUE, query |-> text,
        index |-> idx, limit |-> limit]
  ELSE [endpoint |-> "search", hasQuery |-> FALSE, query |-> <<>>,
        index |-> idx, limit |-> limit]

(* C4: every list fetch that the Home view issues is the request selected
   from the view's query at that moment by the priority letter > category
   filter > free text > default listing. *)
C4_FetchFollowsDiscriminator ==
  [][(route' = "home" /\ Len(inflight') > 0
        /\ (route # "home" \/ Len(inflight') > Len(inflight)))
       => inflight'[Len(inflight')].req = SelectedRequest(query', activeFilter', index')]_vars

(* C5: in the Home view at most one of free text and category filter is
   active (the view holds no letter). *)
C5_SingleDiscriminator ==
  route = "home" => ~(query # <<>> /\ activeFilter # Null)

(* C6: immediately after any search submit or filter selection, and after
   any change of the free text or of the category filter, index is 0. *)
C6_DiscriminatorChangeResetsIndex ==
  [][((\E value \in Inputs : handleSearch(value))
        \/ (\E endpoint \in FilterInputs : handleFilterChange(endpoint))
        \/ query' # query \/ activeFilter' # activeFilter)
       => index' = 0]_vars

(* a search submitted from a later page: the fetch of that page is still
   pending, overtaken by the fetch for index 0 *)
C6_Witness ==
  /\ route = "home" /\ index = 0 /\ isSearching /\ query # <<>>
  /\ Len(inflight) = 2
  /\ inflight[1].req.index > 0 /\ ~inflight[1].latest
  /\ inflight[2].req.index = 0 /\ inflight[2].latest

(* C7: index is never negative. *)
C7_IndexNonNegative == index >= 0

(* Previous has brought the view from a later page back to index 0: the
   fetch of the later page is still pending next to the one for index 0 *)
C7_Witness ==
  /\ route = "home" /\ index = 0 /\ ~isSearching /\ loading
  /\ Len(inflight) = 2
  /\ inflight[1].req.index = limit
  /\ inflight[2].req.index = 0 /\ inflight[2].latest
  /\ inflight[1].req.endpoint = inflight[2].req.endpoint
  /\ isDefaultView /\ totalCount > limit

(* C8: index increases only from a state in which a page is displayed and
   hasMore is true. *)
C8_NextNeedsHasMore ==
  [][index' > index
       => (route = "home" /\ ListShown /\ Len(cocktails) > 0 /\ hasMore)]_vars

(* a last page is displayed with its controls, and there is room to go on *)
C8_Witness ==
  /\ route = "home" /\ ListShown /\ showPagination /\ ~hasMore
  /\ index + limit <= MaxIndex

(* The view that a mount on the query string search builds. *)
DecodeView(search) ==
  [query |-> HomeMounted(search).query, activeFilter |-> Null, index |-> 0]

(* C9 as stated: mounting Home on the URL the view wrote gives back the
   view's free text, category filter and offset. *)
C9_RoundTrip ==
  route = "home"
    => DecodeView(searchParams) =
         [query |-> query, activeFilter |-> activeFilter, index |-> index]

(* C9 amended: mounting Home on the URL the view wrote gives back the
   view's free text; the category filter and the offset are not in the URL
   and come back as no filter and offset 0. *)
C9_FreeTextRoundTrip ==
  route = "home"
    => /\ DecodeView(searchParams).query = query
       /\ DecodeView(searchParams).activeFilter = Null
       /\ DecodeView(searchParams).index = 0

(* a search submitted over a committed page has written to the URL a free
   text with a character that has to be escaped *)
C9_Witness ==
  /\ route = "home" /\ isSearching /\ totalCount > 0 /\ Len(query) = 2
  /\ \E i \in 1..Len(query) : query[i] = "&"
  /\ SearchParamsGet(searchParams, <<"q">>).present

(* The URL carries q = text, or no q at all when text is empty. *)
QParamIs(search, text) ==
  LET q == SearchParamsGet(search, <<"q">>)
  IN IF text = <<>> THEN ~q.present ELSE q.present /\ q.value = text

(* C10: after a search submit, from the Home header or from the header of
   the detail page, the URL carries no q when the trimmed text is empty and
   q equal to the trimmed text otherwise. *)
C10_SearchSubmitUrl ==
  [][\A value \in Inputs :
       (handleSearch(value) \/ detailsHandleSearch(value))
         => QParamIs(searchParams', Trim(value))]_vars

(* Home has just been constructed on some URL. *)
HomeConstructed == \E search \in InitSearches : InitHome(search)

(* C11: on construction the Home view is loading and exactly one fetch is
   in flight: the free-text search for q when the incoming URL has a
   non-empty q, the default listing at offset 0 otherwise. *)
C11_ConstructionFetch ==
  HomeConstructed
    => /\ loading
       /\ Len(inflight) = 1
       /\ inflight[1].req = SelectedRequest(query, Null, 0)

(* A step in which a pending list fetch settles. *)
ListFetchSettles ==
  route = "home" /\ route' = "home" /\ Len(inflight') < Len(inflight)

(* C12 as stated: a list fetch that fails after a page with items was
   committed (totalCount and hasMore are those of a page that has a
   successor) leaves items on display. *)
C12_FailureKeepsPage ==
  [][ListFetchSettles
       => \A k \in 1..Len(inflight), failure \in ListFailures :
            (FetchRejected(k, failure) /\ totalCount > 0 /\ hasMore)
              => cocktails' # <<>>]_vars

(* C12 amended: a list fetch that fails leaves the view out of the loading
   state with the list cleared and "No drinks found" on display, whether or
   not a page was committed before; totalCount and hasMore keep their
   values. *)
C12_FailureClearsList ==
  [][ListFetchSettles
       => \A k \in 1..Len(inflight), failure \in ListFailures :
            FetchRejected(k, failure)
              => /\ cocktails' = <<>>
                 /\ NoDrinksShown'
                 /\ UNCHANGED <<totalCount, hasMore>>]_vars

(* the fetch of page 2 has failed after page 1 of a longer list had been
   committed: nothing is in flight and the list is empty *)
C12_Witness ==
  /\ route = "home" /\ NoDrinksShown /\ inflight = <<>>
  /\ index = limit /\ totalCount > limit /\ hasMore

(* C13 as stated: when a response without pagination block is committed,
   hasMore becomes true if it has limit items and false if it has fewer. *)
C13_HasMoreInferred ==
  [][ListFetchSettles
       => \A k \in 1..Len(inflight), total \in Totals :
            (totalCount' = Undefined /\ FetchResolved(k, total, "bare"))
              => hasMore' = (Len(cocktails') = limit)]_vars

(* C13 amended: when a response without pagination block is committed,
   hasMore becomes false whatever the number of items; with a pagination
   block it becomes the block's hasMore. *)
C13_HasMoreFromBlock ==
  [][ListFetchSettles
       => \A k \in 1..Len(inflight), total \in Totals :
            /\ (totalCount' = Undefined /\ FetchResolved(k, total, "bare"))
                 => hasMore' = FALSE
            /\ (totalCount' = total /\ FetchResolved(k, total, "paginated"))
                 => hasMore' = (inflight[k].req.index + limit < total)]_vars

(* a full page from a response without pagination block is displayed and
   hasMore is false *)
C13_Witness ==
  /\ route = "home" /\ ListShown /\ Len(cocktails) = limit
  /\ totalCount = Undefined /\ ~hasMore

(* C14 as stated: the pagination controls are shown exactly when the
   displayed page has an item and totalCount exceeds limit or is unknown. *)
C14_ControlsShown ==
  route = "home"
    => (PaginationShown
          <=> (Len(cocktails) > 0 /\ (totalCount > limit \/ totalCount = Undefined)))

(* C14 amended: the pagination controls are shown exactly when the
   displayed page has an item and totalCount is known and exceeds limit;
   with an unknown totalCount they are suppressed. *)
C14_ControlsShownKnownTotal ==
  route = "home"
    => (PaginationShown
          <=> (Len(cocktails) > 0 /\ totalCount # Undefined /\ totalCount > limit))

(* a page with items and an unknown totalCount is displayed without the
   controls *)
C14_Witness ==
  /\ route = "home" /\ ListShown /\ Len(cocktails) > 0
  /\ totalCount = Undefined /\ ~PaginationShown

(* C15: for every index >= 0 and limit > 0 the page number is
   floor(index / limit) + 1, i.e. the p with (p - 1) * limit <= index <
   p * limit, index 20 with limit 10 giving 3; and isFirstPage holds exactly
   when index is 0. *)
C15_PageNumber ==
  /\ \A idx \in 0..MaxIndex, lim \in 1..limit :
       LET p == PageNumber(idx, lim)
       IN (p - 1) * lim <= idx /\ idx < p * lim
  /\ PageNumber(20, 10) = 3
  /\ route = "home"
       => /\ (currentPage - 1) * limit <= index /\ index < currentPage * limit
          /\ isFirstPage <=> index = 0
          /\ isFirstPage => currentPage = 1

(* the view is on its third page *)
C15_Witness ==
  route = "home" /\ index = 2 * limit /\ currentPage = 3 /\ ~isFirstPage

(* C16: fetchCocktailsByLetter called with a letter that is not exactly one
   character rejects with the validation error and hands nothing to
   buildUrl or fetchFromApi; called with one character it issues exactly
   one request, whose firstLetter is the letter in lower case. *)
C16_LetterValidated ==
  (call.fn = "fetchCocktailsByLetter" /\ call.done)
    => LET letter == call.args.letter
           r == call.result
       IN /\ Len(letter) # 1
               => /\ r.outcome.rejected
                  /\ r.outcome.error.message = "Letter parameter must be a single character"
                  /\ r.built = <<>>
                  /\ r.requests = <<>>
          /\ Len(letter) = 1
               => /\ Len(r.built) = 1
                  /\ Len(r.requests) = 1
                  /\ r.requests[1].params = r.built[1]
                  /\ r.built[1].index = call.args.index
                  /\ r.built[1].limit = call.args.limit
                  /\ Len(r.built[1].firstLetter) = 1
                  /\ r.built[1].firstLetter[1] =
                       (CASE letter[1] = "A" -> "a"
                          [] letter[1] = "Z" -> "z"
                          [] OTHER -> letter[1])

(* a call with two characters has been rejected without any request *)
C16_Witness ==
  /\ call.fn = "fetchCocktailsByLetter" /\ call.done
  /\ Len(call.args.letter) = 2
  /\ call.result.outcome.rejected /\ call.result.requests = <<>>

(* C17: fetchCocktailById(id) rejects with the not-found error that quotes
   id when the response is a success whose drink is null and resolves with
   the drink when it has one; it never resolves with null, and a failed
   call or a non-success status gives an error that is not the not-found
   error. *)
C17_NotFoundById ==
  (call.fn = "fetchCocktailById" /\ call.done)
    => LET response == call.args.response
           r == call.result
           success == ~response.failed /\ response.status \in 200..299
       IN /\ (success /\ response.body.drink = NoCocktail)
               => /\ r.rejected
                  /\ r.error.message = "Cocktail with ID not found"
                  /\ r.error.id = call.args.id
          /\ (success /\ response.body.drink # NoCocktail)
               => (~r.rejected /\ r.value = response.body.drink)
          /\ ~r.rejected => r.value # NoCocktail
          /\ ~success
               => (r.rejected /\ r.error.message # "Cocktail with ID not found")

(* the call for 99999 has been rejected as not found on a success response
   whose drink is null *)
C17_Witness ==
  /\ call.fn = "fetchCocktailById" /\ call.done
  /\ call.args.id = 99999
  /\ call.args.response = HttpResponse(200, [drink |-> NoCocktail])
  /\ call.result.rejected /\ call.result.error.id = 99999

(* A step in which a pending detail fetch settles. *)
DetailFetchSettles ==
  route = "details" /\ route' = "details"
    /\ Len(detailInflight') < Len(detailInflight)

(* C18: for an id without upstream record the proxy answers with a success
   whose drink is null, and the detail page ends with the not-found error
   that quotes the id. *)
C18_MissingRecordIsNotFound ==
  [][DetailFetchSettles
       => \A k \in 1..Len(detailInflight) :
            DetailSettled(k, "missing")
              => LET response == ProxyCocktailById(detailInflight[k].id, "missing")
                 IN /\ response.status \in 200..299
                    /\ DrinkOf(response.body) = NoCocktail
                    /\ error' = Error("Cocktail with ID not found",
                                      detailInflight[k].id, 0)]_vars

(* C19: a fetchFromApi whose network call fails rejects with the failure's
   error, one whose response has a non-success status rejects with an error
   quoting that status, and one with a success status resolves with the
   body; the settling takes the one pending call away and neither page
   issues another fetch on a failure. *)
C19_FetchFromApi ==
  [][/\ DetailFetchSettles =>
        \A k \in 1..Len(detailInflight), outcome \in DetailOutcomes :
          DetailSettled(k, outcome)
            => LET response == DetailResponse(detailInflight[k].id, outcome)
               IN /\ response.failed => error' = Error("Failed to fetch", NoId, 0)
                  /\ (~response.failed /\ response.status \notin 200..299)
                       => (error'.message = "API error" /\ error'.status = response.status)
                  /\ (~response.failed /\ response.status \in 200..299)
                       => (cocktail' = response.body.drink /\ error' = error)
                  /\ Len(detailInflight') = Len(detailInflight) - 1
     /\ ListFetchSettles =>
        \A k \in 1..Len(inflight), failure \in ListFailures :
          FetchRejected(k, failure)
            => /\ Len(inflight') = Len(inflight) - 1
               /\ UNCHANGED <<index, activeFilter>>]_vars

(* the detail fetch was answered with status 500: the page shows the error
   quoting it and nothing is in flight *)
C19_Witness ==
  /\ route = "details" /\ DetailView = "error"
  /\ error.message = "API error" /\ error.status = 500
  /\ detailInflight = <<>>

LatestDetailPending == \E k \in 1..Len(detailInflight) : detailInflight[k].latest

(* C20: once the detail fetch of the current id has settled the page shows
   the details or the error message, with the back-to-search link, and
   never nothing; and a detail fetch that fails leaves the error view on
   display. *)
C20_DetailsOrError ==
  /\ []((route = "details" /\ ~LatestDetailPending)
         => (DetailView \in {"details", "error"} /\ BackLinkShown))
  /\ [][DetailFetchSettles =>
        \A k \in 1..Len(detailInflight), outcome \in DetailOutcomes :
          (DetailSettled(k, outcome)
             /\ fetchCocktailById(detailInflight[k].id,
                                  DetailResponse(detailInflight[k].id, outcome)).rejected)
            => (DetailView' = "error" /\ BackLinkShown')]_vars

(* the fetch for the current id has failed on a page that had loaded a
   cocktail before: the error view is on display *)
C20_Witness ==
  /\ route = "details" /\ detailInflight = <<>> /\ id = 99999
  /\ cocktail = 11000 /\ DetailView = "error"

(***************************************************************************)
(* C21.  buildUrl emits index and limit whenever they are numbers (0       *)
(* included), emits query and firstLetter only when they are non-empty,    *)
(* emits nothing for an absent parameter, and returns the base URL with no *)
(* '?' when nothing is emitted.                                            *)
(***************************************************************************)
Emitted(url, key) == \E i \in 1..Len(url.pairs) : url.pairs[i].name = key

EntryOf(params, key) == CHOOSE entry \in {params[i] : i \in 1..Len(params)} : entry.key = key

C21_BuildUrlEmits ==
  (call.fn = "buildUrl" /\ call.done) =>
    LET params == call.args.params
        url == call.result
    IN /\ \A key \in {"index", "limit"} :
            Emitted(url, key) <=> EntryOf(params, key).present
       /\ \A key \in {"query", "firstLetter"} :
            Emitted(url, key) <=>
              (EntryOf(params, key).present /\ EntryOf(params, key).value # <<>>)
       /\ url.mark <=> (url.pairs # <<>>)
       /\ url.base = call.args.baseUrl

(***************************************************************************)
(* C22.  In the Home view index is always a multiple of limit (10): it     *)
(* starts at 0 and a step that changes it resets it to 0 or moves it by    *)
(* exactly +limit or -limit, clamped at 0.                                 *)
(***************************************************************************)
C22_IndexMultipleOfLimit ==
  /\ [](route = "home" => (limit = 10 /\ index >= 0 /\ index % limit = 0))
  /\ [][(route = "home" /\ route' = "home" /\ index' # index) =>
          index' \in {0, index + limit, Max(0, index - limit)}]_vars

(* The second page is displayed: offset limit, its first card is item limit. *)
C22_Witness ==
  /\ route = "home" /\ index = limit /\ ListShown
  /\ cocktails # <<>> /\ cocktails[1].pos = limit

(***************************************************************************)
(* C23.  Page navigation changes only the offset: onNext sets index to     *)
(* index + limit, onPrevious to max(0, index - limit); both leave query,   *)
(* activeFilter and the URL alone and put the view in Loading; onPrevious  *)
(* applied to the result of onNext gives back the original index.          *)
(***************************************************************************)
NavigationFrame == loading' /\ UNCHANGED <<query, activeFilter, searchParams>>

C23_NavigationOnlyMovesOffset ==
  [][(route = "home" /\ route' = "home" /\ index' # index) =>
       /\ onNext => (index' = index + limit /\ Max(0, index' - limit) = index
                      /\ NavigationFrame)
       /\ onPrevious => (index' = Max(0, index - limit) /\ NavigationFrame)]_vars

(* Back on the first page and loading it, after the second page (the only
   one whose response says hasMore false for MaxTotal items) was shown. *)
C23_Witness ==
  /\ route = "home" /\ index = 0 /\ loading /\ ~isSearching
  /\ isDefaultView /\ activeFilter = Null
  /\ totalCount = MaxTotal /\ ~hasMore
  /\ inflight # <<>> /\ inflight[Len(inflight)].req.index = 0

(***************************************************************************)
(* C24.  In the Home view isDefaultView is true exactly when no free text  *)
(* is set and no category filter is active, so the heading "All Drinks" is *)
(* never shown over results fetched for an active filter.                  *)
(***************************************************************************)
NoCategoryFilter == activeFilter = Null \/ activeFilter = "search"

C24_DefaultViewAgrees ==
  route = "home" =>
    /\ isDefaultView <=> (query = <<>> /\ NoCategoryFilter)
    /\ (ListShown /\ cocktails # <<>> /\ cocktails[1].endpoint # "search")
         => Heading # "All Drinks"

(***************************************************************************)
(* C25.  Whenever the pagination controls are shown, the derived facts     *)
(* describe the displayed page: totalPages = ceil(totalCount / limit),     *)
(* 1 <= currentPage <= totalPages, and isLastPage holds exactly when       *)
(* currentPage = totalPages.                                               *)
(***************************************************************************)
C25_PaginationFacts ==
  (route = "home" /\ PaginationShown) =>
    /\ totalPages * limit >= totalCount /\ (totalPages - 1) * limit < totalCount
    /\ 1 <= currentPage /\ currentPage <= totalPages
    /\ isLastPage <=> (currentPage = totalPages)

(***************************************************************************)
(* C26.  For every list endpoint of the proxy, index >= 0 and limit > 0,   *)
(* the returned drinks are exactly items [index, index + limit) of the     *)
(* upstream list in upstream order (at most limit items), totalCount is    *)
(* the length of the list, and hasMore holds exactly when                  *)
(* index + limit < totalCount.                                             *)
(***************************************************************************)
C26_PageIsSlice ==
  (call.fn = "proxyList" /\ call.done) =>
    LET a == call.args
        r == call.result
        window == {p \in 0..(a.total - 1) : a.index <= p /\ p < a.index + a.limit}
    IN /\ Len(r.drinks) = Cardinality(window)
       /\ Len(r.drinks) <= a.limit
       /\ \A k \in 1..Len(r.drinks) :
            r.drinks[k] = [endpoint |-> a.endpoint, pos |-> a.index + k - 1]
       /\ r.totalCount = a.total
       /\ r.hasMore <=> (a.index + a.limit < a.total)

(* The short last page: items limit .. MaxTotal - 1 of MaxTotal. *)
C26_Witness ==
  /\ call.fn = "proxyList" /\ call.done
  /\ call.args.index = limit /\ call.args.limit = limit /\ call.args.total = MaxTotal
  /\ Len(call.result.drinks) = MaxTotal - limit
  /\ ~call.result.hasMore

(***************************************************************************)
(* C27.  Against an unchanging upstream list, paging from index 0 by       *)
(* index + limit while hasMore terminates after ceil(totalCount / limit)   *)
(* requests (one for an empty list), returns every upstream item exactly   *)
(* once in order, and every page before the last has exactly limit items.  *)
(***************************************************************************)
RECURSIVE Flatten(_)
Flatten(pages) == IF pages = <<>> THEN <<>> ELSE Head(pages) \o Flatten(Tail(pages))

PagingDone == call.fn = "paging" /\ call.done

C27_PagingTerminates ==
  /\ (call.fn = "paging") ~> PagingDone
  /\ [](call.fn = "paging" =>
          LET a == call.args
              r == call.result
          IN /\ r.requests = Len(r.pages)
             /\ r.requests <= Max(1, Ceil(a.total, a.limit))
             /\ \A k \in 1..(Len(r.pages) - 1) : Len(r.pages[k]) = a.limit
             /\ call.done =>
                  /\ r.requests = Max(1, Ceil(a.total, a.limit))
                  /\ Flatten(r.pages) =
                       [p \in 1..a.total |-> [endpoint |-> a.endpoint, pos |-> p - 1]])

(* MaxTotal items paged through by limit: more than one request, the last
   page short. *)
C27_Witness ==
  /\ PagingDone
  /\ call.args.total = MaxTotal /\ call.args.limit = limit
  /\ call.result.requests = Ceil(MaxTotal, limit) /\ call.result.requests > 1
  /\ Len(call.result.pages[call.result.requests]) < limit

(***************************************************************************)
(* C28.  If the id of the detail page changes while the fetch for the      *)
(* previous id is unsettled, then once both fetches have settled, in       *)
(* either order and with either outcome, what is shown is the outcome of   *)
(* the fetch for the current id: a cocktail shown is the one of that id.   *)
(***************************************************************************)
C28_CurrentIdShown ==
  (route = "details" /\ detailInflight = <<>> /\ DetailView = "details") =>
    cocktail = id

(***************************************************************************)
(* C29.  An invalid id is rejected before any downstream call at both      *)
(* layers: the detail page rendered with a missing or non-numeric id ends  *)
(* its effect in the error "Invalid cocktail ID" without a call of         *)
(* fetchCocktailById (no fetch for such an id is ever pending), and the    *)
(* proxy answers 400 for such an id without an upstream lookup.            *)
(***************************************************************************)
InvalidIdRejected ==
  /\ error = Error("Invalid cocktail ID", NoId, 0)
  /\ DetailView = "error"

C29_InvalidIdRejected ==
  /\ (route = "details" /\ InvalidId(id)) => (InvalidIdRejected /\ detailInflight = <<>>)
  /\ [](route = "details" =>
          /\ \A k \in 1..Len(detailInflight) : ~InvalidId(detailInflight[k].id)
          /\ InvalidId(id) => DetailView = "error")
  /\ [](\A reqId \in {NoId, NaNId}, upstream \in Upstreams :
          /\ ProxyCocktailById(reqId, upstream).status = 400
          /\ ProxyLookups(reqId) = <<>>)
  /\ [][(route' = "details" /\ InvalidId(id') /\ (id' # id \/ route # "details")) =>
          /\ InvalidIdRejected'
          /\ Len(detailInflight') <= Len(detailInflight)]_vars

(* A page that showed a cocktail is re-rendered with a non-numeric id. *)
C29_Witness ==
  /\ route = "details" /\ id = NaNId /\ cocktail # NoCocktail
  /\ InvalidIdRejected /\ detailInflight = <<>>

(***************************************************************************)
(* C30.  Search context is preserved across navigation: opening a card     *)
(* while a search term q is active leads to a detail URL carrying the same *)
(* q and a detail page whose search box holds q, and going back to search  *)
(* from the detail page returns to a list view for the same q.             *)
(***************************************************************************)
ActiveQ == SearchParamsGet(searchParams, <<"q">>)

C30_SearchContextPreserved ==
  [][(route # route' /\ Truthy(ActiveQ)) =>
       /\ OpenCard => (QParamIs(searchParams', ActiveQ.value)
                        /\ detailDisplayValue' = ActiveQ.value)
       /\ BackToSearch => (QParamIs(searchParams', ActiveQ.value)
                            /\ query' = Trim(ActiveQ.value))]_vars

====
